---- MODULE Spec2Model ----
(***************************************************************************)
(* Model of the CONAPREV check-in confirmation server (server.js, latest   *)
(* variant: in-memory roster index, per-day duplicate sets, periodic       *)
(* refresh, retry with backoff around the single remote append).           *)
(*                                                                         *)
(* Strings are sequences of one-character strings; characters outside      *)
(* ASCII carry ASCII names ("c_ced" is U+00E7, "~ced" is U+0327).          *)
(* Instants are milliseconds since 2025-08-01T00:00:00Z, as Date values    *)
(* are milliseconds since the epoch.                                       *)
(***************************************************************************)
EXTENDS Integers, Sequences, FiniteSets, TLC

(* ------------------------------------------------------------------ *)
(* Bounds of the model                                                 *)
(* ------------------------------------------------------------------ *)
MaxReq == 2
MaxRefresh == 2

(* ------------------------------------------------------------------ *)
(* Strings                                                             *)
(* ------------------------------------------------------------------ *)
Digits == {"0", "1", "2", "3", "4", "5", "6", "7", "8", "9"}

\* the characters \s matches, within the model's alphabet
Whitespace == {" ", "TAB"}

\* the combining marks of the model's alphabet that lie in U+0300..U+036F
CombiningMarks == {"~ced", "~til", "~acu"}

Rep(c, n) == [i \in 1..n |-> c]

RECURSIVE Flatten(_)
Flatten(ss) == IF ss = <<>> THEN <<>> ELSE Head(ss) \o Flatten(Tail(ss))

\* String.prototype.normalize('NFD') on one character
DecomposeChar(c) ==
  CASE c = "c_ced" -> <<"c", "~ced">>
    [] c = "C_ced" -> <<"C", "~ced">>
    [] c = "a_til" -> <<"a", "~til">>
    [] c = "A_til" -> <<"A", "~til">>
    [] c = "a_acu" -> <<"a", "~acu">>
    [] c = "A_acu" -> <<"A", "~acu">>
    [] OTHER -> <<c>>

NFD(s) == Flatten([i \in 1..Len(s) |-> DecomposeChar(s[i])])

IsMark(c) == c \in CombiningMarks
NotMark(c) == ~IsMark(c)

\* .replace(/[U+0300-U+036F]/g, '')
StripMarks(s) == SelectSeq(s, NotMark)

\* .replace(/\s+/g, ' '): every maximal run of whitespace becomes one space
RECURSIVE CollapseWs(_)
CollapseWs(s) ==
  IF s = <<>> THEN <<>>
  ELSE IF Head(s) \in Whitespace
       THEN IF Len(s) > 1 /\ s[2] \in Whitespace
            THEN CollapseWs(Tail(s))
            ELSE <<" ">> \o CollapseWs(Tail(s))
       ELSE <<Head(s)>> \o CollapseWs(Tail(s))

RECURSIVE TrimStart(_)
TrimStart(s) ==
  IF s # <<>> /\ Head(s) \in Whitespace THEN TrimStart(Tail(s)) ELSE s

RECURSIVE TrimEnd(_)
TrimEnd(s) ==
  IF s # <<>> /\ s[Len(s)] \in Whitespace
  THEN TrimEnd(SubSeq(s, 1, Len(s) - 1))
  ELSE s

\* String.prototype.trim
Trim(s) == TrimEnd(TrimStart(s))

LowerChar(c) ==
  CASE c = "A" -> "a" [] c = "B" -> "b" [] c = "C" -> "c" [] c = "D" -> "d"
    [] c = "E" -> "e" [] c = "F" -> "f" [] c = "G" -> "g" [] c = "H" -> "h"
    [] c = "I" -> "i" [] c = "J" -> "j" [] c = "K" -> "k" [] c = "L" -> "l"
    [] c = "M" -> "m" [] c = "N" -> "n" [] c = "O" -> "o" [] c = "P" -> "p"
    [] c = "Q" -> "q" [] c = "R" -> "r" [] c = "S" -> "s" [] c = "T" -> "t"
    [] c = "U" -> "u" [] c = "V" -> "v" [] c = "W" -> "w" [] c = "X" -> "x"
    [] c = "Y" -> "y" [] c = "Z" -> "z"
    [] c = "C_ced" -> "c_ced" [] c = "A_til" -> "a_til" [] c = "A_acu" -> "a_acu"
    [] OTHER -> c

\* String.prototype.toLowerCase
ToLower(s) == [i \in 1..Len(s) |-> LowerChar(s[i])]

\* String.prototype.includes
Includes(s, sub) ==
  \E i \in 0..(Len(s) - Len(sub)) : SubSeq(s, i + 1, i + Len(sub)) = sub

\* .replace(/\D/g, '')
IsDigit(c) == c \in Digits
StripNonDigits(s) == SelectSeq(s, IsDigit)

\* Array.prototype.findIndex: the 0-based index of the first element
\* that satisfies the callback (hits[i] is its result on element i), or -1
FindIndex(hits) ==
  IF \E i \in 1..Len(hits) : hits[i]
  THEN (CHOOSE i \in 1..Len(hits) : hits[i] /\ \A j \in 1..(i - 1) : ~hits[j]) - 1
  ELSE -1

\* normalizeHeader with the marks removed before the decomposition
normalizeHeader_stripFirst(h) == ToLower(Trim(CollapseWs(NFD(StripMarks(h)))))

normalizeHeader(h) == ToLower(Trim(CollapseWs(StripMarks(NFD(h)))))

s_inscr == <<"i", "n", "s", "c", "r">>
s_status == <<"s", "t", "a", "t", "u", "s">>
s_situacao == <<"s", "i", "t", "u", "a", "c", "a", "o">>
s_tipo == <<"t", "i", "p", "o">>
s_categoria == <<"c", "a", "t", "e", "g", "o", "r", "i", "a">>
s_cpf == <<"c", "p", "f">>
s_nome == <<"n", "o", "m", "e">>
s_data == <<"d", "a", "t", "a">>
s_horario == <<"h", "o", "r", "a", "r", "i", "o">>

HasInscr(h) == Includes(h, s_inscr)
IsCleanInscr(h) ==
  /\ Includes(h, s_inscr)
  /\ ~Includes(h, s_status)
  /\ ~Includes(h, s_situacao)
  /\ ~Includes(h, s_tipo)
  /\ ~Includes(h, s_categoria)

\* a choice that takes the first header containing 'inscr', whatever else
\* it contains
pickInscricaoIndex_firstCand(normHeads) ==
  FindIndex([i \in DOMAIN normHeads |-> HasInscr(normHeads[i])])

pickInscricaoIndex(normHeads) ==
  IF FindIndex([i \in DOMAIN normHeads |-> HasInscr(normHeads[i])]) = -1 THEN -1
  ELSE IF FindIndex([i \in DOMAIN normHeads |-> IsCleanInscr(normHeads[i])]) # -1
       THEN FindIndex([i \in DOMAIN normHeads |-> IsCleanInscr(normHeads[i])])
       ELSE FindIndex([i \in DOMAIN normHeads |-> HasInscr(normHeads[i])])

(* ------------------------------------------------------------------ *)
(* Payload validation                                                  *)
(* ------------------------------------------------------------------ *)
\* A request body is the set of its keys and the value under "cpf";
\* a value has a JSON type and, when a string, its characters.
Str(chars) == [type |-> "string", chars |-> chars]
NumberValue == [type |-> "number", chars |-> <<>>]
Undefined == [type |-> "undefined", chars |-> <<>>]

\* the schema with unknown keys allowed
schema_validate_allowUnknown(body) ==
  /\ "cpf" \in body.keys
  /\ body.cpf.type = "string"
  /\ Len(body.cpf.chars) = 11
  /\ \A i \in 1..Len(body.cpf.chars) : body.cpf.chars[i] \in Digits

\* Joi.object({ cpf: Joi.string().pattern(/^\d{11}$/).required() }):
\* no unknown keys, cpf present, a string, exactly eleven ASCII digits
schema_validate(body) ==
  /\ body.keys \subseteq {"cpf"}
  /\ "cpf" \in body.keys
  /\ body.cpf.type = "string"
  /\ Len(body.cpf.chars) = 11
  /\ \A i \in 1..Len(body.cpf.chars) : body.cpf.chars[i] \in Digits

(* ------------------------------------------------------------------ *)
(* Time                                                                *)
(* ------------------------------------------------------------------ *)
MsPerHour == 60 * 60000
MsPerDay == 24 * MsPerHour

\* Date.UTC(2025, 7, d, H, M), in milliseconds since 2025-08-01T00:00Z
\* (the model's instants all lie in August 2025)
DateUTC(y, monthIndex, d, H, M) == ((d - 1) * 24 + H) * MsPerHour + M * 60000

\* Intl.DateTimeFormat in America/Sao_Paulo (UTC-3): year, month, day, hour
\* and minute of the instant t; seconds and milliseconds are not requested
nowInSaoPauloParts(t) ==
  LET local == t - 3 * MsPerHour
  IN [y |-> 2025, m |-> 8,
      d |-> (local \div MsPerDay) + 1,
      H |-> (local % MsPerDay) \div MsPerHour,
      M |-> (local % MsPerHour) \div 60000]

spDate(y, m, d, H, M) == DateUTC(y, m - 1, d, H + 3, M)

currentSpDate(t) ==
  LET p == nowInSaoPauloParts(t)
  IN spDate(p.y, p.m, p.d, p.H, p.M)

d1Start == spDate(2025, 8, 12, 8, 30)
d1End == spDate(2025, 8, 12, 19, 35)
d2Start == spDate(2025, 8, 13, 8, 30)
d2End == spDate(2025, 8, 13, 15, 0)

NoDay == "none"

NoWindow == [status |-> "unknown", day |-> NoDay, nextDay |-> NoDay,
             nextStart |-> 0, label |-> "none"]

\* getWindowStatus with the last test dropped: no status 'after'
getWindowStatus_noAfter(t) ==
  LET now == currentSpDate(t)
  IN IF now >= d1Start /\ now <= d1End
       THEN [NoWindow EXCEPT !.status = "open", !.day = "Dia1"]
     ELSE IF now >= d2Start /\ now <= d2End
       THEN [NoWindow EXCEPT !.status = "open", !.day = "Dia2"]
     ELSE IF now < d1Start
       THEN [NoWindow EXCEPT !.status = "before", !.nextDay = "Dia1",
                             !.nextStart = d1Start, !.label = "primeiro dia"]
     ELSE IF now > d1End /\ now < d2Start
       THEN [NoWindow EXCEPT !.status = "before", !.nextDay = "Dia2",
                             !.nextStart = d2Start, !.label = "segundo dia"]
     ELSE NoWindow

\* getWindowStatus with the second day's answer given before the first day too
getWindowStatus_secondDay(t) ==
  LET now == currentSpDate(t)
  IN IF now >= d1Start /\ now <= d1End
       THEN [NoWindow EXCEPT !.status = "open", !.day = "Dia1"]
     ELSE IF now >= d2Start /\ now <= d2End
       THEN [NoWindow EXCEPT !.status = "open", !.day = "Dia2"]
     ELSE IF now < d2Start
       THEN [NoWindow EXCEPT !.status = "before", !.nextDay = "Dia2",
                             !.nextStart = d2Start, !.label = "segundo dia"]
     ELSE IF now > d2End
       THEN [NoWindow EXCEPT !.status = "after"]
     ELSE NoWindow

\* getWindowStatus with the first day's end excluded from its window
getWindowStatus_strictEnd(t) ==
  LET now == currentSpDate(t)
  IN IF now >= d1Start /\ now < d1End
       THEN [NoWindow EXCEPT !.status = "open", !.day = "Dia1"]
     ELSE IF now >= d2Start /\ now <= d2End
       THEN [NoWindow EXCEPT !.status = "open", !.day = "Dia2"]
     ELSE IF now < d1Start
       THEN [NoWindow EXCEPT !.status = "before", !.nextDay = "Dia1",
                             !.nextStart = d1Start, !.label = "primeiro dia"]
     ELSE IF now > d1End /\ now < d2Start
       THEN [NoWindow EXCEPT !.status = "before", !.nextDay = "Dia2",
                             !.nextStart = d2Start, !.label = "segundo dia"]
     ELSE IF now > d2End
       THEN [NoWindow EXCEPT !.status = "after"]
     ELSE NoWindow

\* a classification whose windows exclude their starting minute
getWindowStatus_openStart(t) ==
  LET now == currentSpDate(t)
  IN IF now > d1Start /\ now <= d1End
       THEN [NoWindow EXCEPT !.status = "open", !.day = "Dia1"]
     ELSE IF now > d2Start /\ now <= d2End
       THEN [NoWindow EXCEPT !.status = "open", !.day = "Dia2"]
     ELSE IF now <= d1Start
       THEN [NoWindow EXCEPT !.status = "before", !.nextDay = "Dia1",
                             !.nextStart = d1Start, !.label = "primeiro dia"]
     ELSE IF now > d1End /\ now <= d2Start
       THEN [NoWindow EXCEPT !.status = "before", !.nextDay = "Dia2",
                             !.nextStart = d2Start, !.label = "segundo dia"]
     ELSE IF now > d2End
       THEN [NoWindow EXCEPT !.status = "after"]
     ELSE NoWindow

\* getWindowStatus, the clock reading t being its `new Date()`
getWindowStatus(t) ==
  LET now == currentSpDate(t)
  IN IF now >= d1Start /\ now <= d1End
       THEN [NoWindow EXCEPT !.status = "open", !.day = "Dia1"]
     ELSE IF now >= d2Start /\ now <= d2End
       THEN [NoWindow EXCEPT !.status = "open", !.day = "Dia2"]
     ELSE IF now < d1Start
       THEN [NoWindow EXCEPT !.status = "before", !.nextDay = "Dia1",
                             !.nextStart = d1Start, !.label = "primeiro dia"]
     ELSE IF now > d1End /\ now < d2Start
       THEN [NoWindow EXCEPT !.status = "before", !.nextDay = "Dia2",
                             !.nextStart = d2Start, !.label = "segundo dia"]
     ELSE IF now > d2End
       THEN [NoWindow EXCEPT !.status = "after"]
     ELSE NoWindow

Max(a, b) == IF a >= b THEN a ELSE b

DigitChar(n) ==
  CASE n = 0 -> "0" [] n = 1 -> "1" [] n = 2 -> "2" [] n = 3 -> "3"
    [] n = 4 -> "4" [] n = 5 -> "5" [] n = 6 -> "6" [] n = 7 -> "7"
    [] n = 8 -> "8" [] n = 9 -> "9"

\* String(n) for an integer n
RECURSIVE String(_)
String(n) == IF n < 0 THEN <<"-">> \o String(-n)
             ELSE IF n < 10 THEN <<DigitChar(n)>>
             ELSE String(n \div 10) \o <<DigitChar(n % 10)>>

\* a % b of JavaScript, b > 0: the remainder has the sign of a
JsRem(a, b) == IF a >= 0 THEN a % b ELSE -((-a) % b)

\* s.padStart(2, '0')
padStart2(s) == IF Len(s) >= 2 THEN s ELSE Rep("0", 2 - Len(s)) \o s

\* a countdown without the clamp at zero
Countdown_noClamp(nextStart, t2) ==
  LET now == currentSpDate(t2)
      diffMs == nextStart - now
      totalMin == diffMs \div 60000
  IN [hh |-> padStart2(String(totalMin \div 60)),
      mm |-> padStart2(String(JsRem(totalMin, 60)))]

\* the countdown of the before-branch: nextStart of the window status and
\* a second clock reading t2
Countdown(nextStart, t2) ==
  LET now == currentSpDate(t2)
      diffMs == nextStart - now
      totalMin == Max(0, diffMs \div 60000)
  IN [hh |-> padStart2(String(totalMin \div 60)),
      mm |-> padStart2(String(JsRem(totalMin, 60)))]

\* the wall-clock instant of day d of August 2025, H:M:S in Sao Paulo
At(d, H, M, S) == DateUTC(2025, 7, d, H + 3, M) + S * 1000

\* the clock readings the model draws from
Instants == {
  At(12, 8, 28, 10), At(12, 8, 28, 50), At(12, 8, 29, 59),
  At(12, 8, 30, 0), At(12, 19, 35, 0), At(12, 19, 35, 30),
  At(12, 19, 36, 0), At(13, 8, 29, 30),
  At(13, 8, 30, 0), At(13, 15, 0, 0), At(13, 15, 0, 30),
  At(13, 15, 1, 0) }

FirstInstant == CHOOSE t \in Instants : \A u \in Instants : t <= u

\* the readings a second look at the clock may give after a first reading
\* t: t itself or one of the two readings that follow it
LaterInstants(t) ==
  { u \in Instants :
      u >= t /\ Cardinality({ v \in Instants : t < v /\ v < u }) <= 1 }

(* ------------------------------------------------------------------ *)
(* The remote spreadsheet                                              *)
(* ------------------------------------------------------------------ *)
PERFIS == <<"Conselheiros", "CNRPPS", "Palestrantes", "Staffs",
            "Convidados", "COPAJURE", "Patrocinadores">>

Days == <<"Dia1", "Dia2">>

cpfA == Rep("1", 11)
cpfB == Rep("2", 11)
cpfE == Rep("3", 11)
cpfU == Rep("4", 11)
cpfP == Rep("5", 11)
cpfX == Rep("9", 11)

NoSheet == [exists |-> FALSE, headers |-> <<>>, rows |-> <<>>]

\* doc.sheetsByTitle[aba] for the profile tables: headers and rows, a row
\* being its cells in header order (an empty cell is the empty string)
ProfileSheet(aba) ==
  CASE aba = "Conselheiros" ->
         [exists |-> TRUE,
          headers |-> << <<"C", "P", "F">>,
                         <<"N", "o", "m", "e">>,
                         <<"S", "t", "a", "t", "u", "s", " ", "d", "a", " ",
                           "I", "n", "s", "c", "r", "i", "c_ced", "a_til", "o">>,
                         <<"I", "n", "s", "c", "r", "i", "c_ced", "a_til", "o">> >>,
          rows |-> << << <<"1", "1", "1", ".", "1", "1", "1", ".", "1", "1", "1", "-", "1", "1">>,
                         <<"A", "n", "a">>, <<"o", "k">>, <<" ", "A", "1", " ">> >>,
                      << cpfU, <<"U", "g", "o">>, <<"o", "k">>, <<>> >>,
                      << <<"-">>, <<"Z", "e">>, <<"o", "k">>, <<"Z", "0">> >> >>]
    [] aba = "Palestrantes" ->
         [exists |-> TRUE,
          headers |-> << <<"C", "P", "F">>, <<"N", "o", "m", "e">> >>,
          rows |-> << << cpfP, <<"P", "i", "a">> >> >>]
    [] aba = "Staffs" ->
         [exists |-> TRUE,
          headers |-> << <<" ", "c", "p", "f", " ">>,
                         <<"N", "O", "M", "E", " ", " ", "C", "O", "M", "P", "L", "E", "T", "O">>,
                         <<"T", "i", "p", "o", "TAB", "I", "n", "s", "c", "r", "i", "c", "a", "o">> >>,
          rows |-> << << cpfU, <<"U", "g", "o">>, <<"U", "7">> >>,
                      << cpfA, <<"A", "n", "a", " ", "B">>, <<"A", "9">> >>,
                      << cpfE, <<" ", "E", "v", "a", " ">>, <<" ">> >>,
                      << cpfB, <<"B", "i", "a">>, <<"B", "2">> >>,
                      << cpfU, <<"U", "g", "o", "2">>, <<"U", "8">> >> >>]
    [] OTHER -> NoSheet

GoodDayHeaders ==
  << <<"I", "n", "s", "c", "r", "i", "c_ced", "a_til", "o">>,
     <<"N", "o", "m", "e">>,
     <<"D", "a", "t", "a">>,
     <<"H", "o", "r", "a_acu", "r", "i", "o">> >>

\* a check-in table whose time column is headed "Hora": unresolvable
BadDayHeaders ==
  << <<"I", "n", "s", "c", "r", "i", "c", "a", "o">>,
     <<"N", "o", "m", "e">>,
     <<"D", "a", "t", "a">>,
     <<"H", "o", "r", "a">> >>

\* the check-in tables the remote document may hold: both with all four
\* columns, or Dia1 missing and Dia2 with an unresolvable time column
SheetConfigs ==
  { [Dia1 |-> [exists |-> TRUE, headers |-> GoodDayHeaders],
     Dia2 |-> [exists |-> TRUE, headers |-> GoodDayHeaders]],
    [Dia1 |-> [exists |-> FALSE, headers |-> <<>>],
     Dia2 |-> [exists |-> TRUE, headers |-> BadDayHeaders]] }

\* a check-in row: the cells under the registration and name columns
\* (the date and time cells are written and never read back)
Row(inscricao, nome) == [inscricao |-> inscricao, nome |-> nome]

\* the rows of the Dia1 table when the process starts: an earlier run of
\* the server has confirmed A1
InitialDia1Rows == << Row(<<" ", "A", "1">>, <<"A", "n", "a">>) >>

(* ------------------------------------------------------------------ *)
(* Roster index build                                                  *)
(* ------------------------------------------------------------------ *)
IsCpfHeader(h) == h = s_cpf
HasNome(h) == Includes(h, s_nome)
IsDataHeader(h) == h = s_data
HasHorario(h) == Includes(h, s_horario)

NormHeaders(headers) == [i \in 1..Len(headers) |-> normalizeHeader(headers[i])]

EmptyIndex == [c \in {} |-> [aba |-> "", nome |-> <<>>, inscricao |-> <<>>]]

MapSet(index, k, v) ==
  [c \in DOMAIN index \cup {k} |-> IF c = k THEN v ELSE index[c]]

\* r[headers[i]] || '' for the 0-based column i of row r
Cell(r, i) == IF i + 1 <= Len(r) THEN r[i + 1] ELSE <<>>

\* a merge in which the latest row always wins
MergeRow_lastWins(index, aba, r, iCpf, iNome, iInscr) ==
  LET cpf == StripNonDigits(Cell(r, iCpf))
      nome == Trim(Cell(r, iNome))
      inscricao == Trim(Cell(r, iInscr))
      rec == [aba |-> aba, nome |-> nome, inscricao |-> inscricao]
  IN IF cpf = <<>> THEN index
     ELSE MapSet(index, cpf, rec)

\* one row of a profile table merged into the index being built
MergeRow(index, aba, r, iCpf, iNome, iInscr) ==
  LET cpf == StripNonDigits(Cell(r, iCpf))
      nome == Trim(Cell(r, iNome))
      inscricao == Trim(Cell(r, iInscr))
      rec == [aba |-> aba, nome |-> nome, inscricao |-> inscricao]
  IN IF cpf = <<>> THEN index
     ELSE IF cpf \notin DOMAIN index THEN MapSet(index, cpf, rec)
     ELSE IF index[cpf].inscricao = <<>> /\ inscricao # <<>>
          THEN MapSet(index, cpf, rec)
          ELSE index

RECURSIVE ScanRows(_, _, _, _, _, _)
ScanRows(index, aba, rows, iCpf, iNome, iInscr) ==
  IF rows = <<>> THEN index
  ELSE ScanRows(MergeRow(index, aba, Head(rows), iCpf, iNome, iInscr),
                aba, Tail(rows), iCpf, iNome, iInscr)

\* the body of the loop over PERFIS for the table ws named aba
ScanSheet(index, aba, ws) ==
  LET norm == NormHeaders(ws.headers)
      iCpf == FindIndex([i \in DOMAIN norm |-> IsCpfHeader(norm[i])])
      iNome == FindIndex([i \in DOMAIN norm |-> HasNome(norm[i])])
      iInscr == pickInscricaoIndex(norm)
  IN IF ~ws.exists THEN index
     ELSE IF iCpf < 0 \/ iNome < 0 \/ iInscr < 0 THEN index
     ELSE ScanRows(index, aba, ws.rows, iCpf, iNome, iInscr)

\* one iteration of the loop over PERFIS
ScanProfile(index, aba) == ScanSheet(index, aba, ProfileSheet(aba))

RECURSIVE ScanProfiles(_, _)
ScanProfiles(index, abas) ==
  IF abas = <<>> THEN index
  ELSE ScanProfiles(ScanProfile(index, Head(abas)), Tail(abas))

\* the newIndex a run of initSheets builds
BuildIndex == ScanProfiles(EmptyIndex, PERFIS)

\* the four columns of a check-in table
ResolveDay(headers) ==
  LET norm == NormHeaders(headers)
  IN [iInscr |-> pickInscricaoIndex(norm),
      iNome |-> FindIndex([i \in DOMAIN norm |-> HasNome(norm[i])]),
      iData |-> FindIndex([i \in DOMAIN norm |-> IsDataHeader(norm[i])]),
      iHora |-> FindIndex([i \in DOMAIN norm |-> HasHorario(norm[i])])]

DayResolved(idx) ==
  ~(idx.iInscr < 0 \/ idx.iNome < 0 \/ idx.iData < 0 \/ idx.iHora < 0)

\* the registration numbers of the rows read from a check-in table
RowsToSet(rows) ==
  { Trim(rows[k].inscricao) : k \in 1..Len(rows) } \ { <<>> }

(* ------------------------------------------------------------------ *)
(* State                                                               *)
(* ------------------------------------------------------------------ *)
VARIABLES
  clock,       \* the instant of the latest request handled
  sheetCfg,    \* the remote document's check-in tables (existence, headers)
  remote,      \* the remote check-in tables' rows, per day
  ready,       \* state.ready
  indexByCPF,  \* state.indexByCPF
  chk,         \* state.checkin[day]: ws, headers, idx
  setInscr,    \* state.checkin.setInscr[day]
  rpc,         \* where the running initSheets is suspended ("idle": none runs)
  rday,        \* the index in Days of the table initSheets is loading
  newIndex,    \* initSheets' local newIndex
  rrows,       \* the rows the pending getRows of initSheets has read
  nRefresh,    \* runs of initSheets started so far
  rerr,        \* the failure of the latest run of initSheets, as its
               \* caller's catch logs it ("none": it has not failed)
  req,         \* the requests: position, locals, response
  hdr,         \* a header under normalizeHeader: the string, the result of
               \* one call and of a second call on that result
  scan,        \* a scan of profile rows into newIndex: the rows in scan
               \* order, how many are merged, the newIndex.set calls per key
  pick         \* a profile table with drawn headers under the loop over
               \* PERFIS: its extra headers, the tables scanned so far, the
               \* index pickInscricaoIndex returned for it

vars == <<clock, sheetCfg, remote, ready, indexByCPF, chk, setInscr,
          rpc, rday, newIndex, rrows, nRefresh, rerr, req, hdr, scan, pick>>

Req == 1..MaxReq

NullIdx == [iInscr |-> -1, iNome |-> -1, iData |-> -1, iHora |-> -1]
\* { ws: null, headers: null, idx: null }
NullChk == [ws |-> "null", headers |-> <<>>, idx |-> NullIdx]

\* the handler without its test of the day table's configuration
ChkIncomplete_never(c) == FALSE

\* !chk?.ws || !chk?.headers || !chk?.idx
ChkIncomplete(c) == c.ws = "null" \/ c.headers = <<>> \/ c.idx = NullIdx

NoRes == [status |-> 0, error |-> "none", errorCode |-> "none",
          nome |-> <<>>, inscricao |-> <<>>, dia |-> NoDay,
          proximoDia |-> NoDay, horas |-> <<>>, minutos |-> <<>>]

NoBody == [keys |-> {}, cpf |-> Undefined]

\* a request: where its handler is (pc), its body, the handler's locals
\* while it is suspended (nome, inscricao, sheetName, and withRetry's tries,
\* wait and caught error's status), its response (res), and for the claims: the instants of the
\* two clock readings of a countdown (at, at2), the rows it has caused in
\* the remote table (appended), and whether it passed the duplicate check
\* while another request for the same table and number was appending
NewReq == [pc |-> "new", body |-> NoBody, at |-> 0, at2 |-> 0,
           nome |-> <<>>, inscricao |-> <<>>, sheetName |-> NoDay,
           tries |-> 0, wait |-> 0, err |-> "none",
           appended |-> 0, overlap |-> FALSE, res |-> NoRes]

\* no scan of drawn profile rows is under way
NoScan == [rows |-> <<>>, pos |-> 0, sets |-> <<>>]

\* no drawn profile table is under scan
NoPick == [headers |-> <<>>, step |-> 0, iInscr |-> -1]

\* no header is under normalisation
NoHeader == [raw |-> <<>>, once |-> <<>>, twice |-> <<>>, applied |-> 0]

\* the request bodies the model draws from
Bodies ==
  { [keys |-> {"cpf"}, cpf |-> Str(c)] : c \in {cpfA, cpfB, cpfE, cpfX} }
  \cup
  { [keys |-> {"cpf"}, cpf |-> Str(Rep("1", 10))],
    [keys |-> {"cpf"}, cpf |-> Str(Rep("1", 12))],
    [keys |-> {"cpf"}, cpf |-> Str(<<"1", "1", "1", ".", "1", "1", "1", ".", "1", "1", "1">>)],
    [keys |-> {"cpf"}, cpf |-> NumberValue],
    [keys |-> {}, cpf |-> Undefined],
    [keys |-> {"cpf", "nome"}, cpf |-> Str(cpfA)] }

Init ==
  /\ clock = FirstInstant
  /\ sheetCfg \in SheetConfigs
  /\ remote = [Dia1 |-> IF sheetCfg.Dia1.exists THEN InitialDia1Rows ELSE <<>>,
               Dia2 |-> <<>>]
  /\ ready = FALSE
  /\ indexByCPF = EmptyIndex
  /\ chk = [Dia1 |-> NullChk, Dia2 |-> NullChk]
  /\ setInscr = [Dia1 |-> {}, Dia2 |-> {}]
  /\ rpc = "idle"
  /\ rday = 0
  /\ newIndex = EmptyIndex
  /\ rrows = <<>>
  /\ nRefresh = 0
  /\ rerr = "none"
  /\ req = [r \in Req |-> NewReq]
  /\ hdr = NoHeader
  /\ scan = NoScan
  /\ pick = NoPick

(* ------------------------------------------------------------------ *)
(* initSheets                                                          *)
(* ------------------------------------------------------------------ *)
\* where the loop over the check-in tables stops next, from table k on:
\* a table the document lacks is skipped without suspending; past the
\* last table the run ends
RECURSIVE NextDayStop(_)
NextDayStop(k) ==
  IF k > Len(Days) THEN 0
  ELSE IF ~sheetCfg[Days[k]].exists THEN NextDayStop(k + 1)
  ELSE k

\* the loop goes on from table k, newIndex holding ni: it suspends on that
\* table's loadHeaderRow, or ends the run with the swap of the index
ContinueDays(k, ni) ==
  IF NextDayStop(k) = 0
  THEN /\ indexByCPF' = ni
       /\ ready' = TRUE
       /\ rpc' = "idle"
       /\ rday' = 0
       /\ newIndex' = EmptyIndex
  ELSE /\ rpc' = "dayHeader"
       /\ rday' = NextDayStop(k)
       /\ newIndex' = ni
       /\ UNCHANGED <<indexByCPF, ready>>

\* the boot call and each firing of the refresh timer
InitSheetsStart ==
  /\ rpc = "idle"
  /\ nRefresh < MaxRefresh
  /\ nRefresh' = nRefresh + 1
  /\ rpc' = "loadInfo"
  /\ rerr' = "none"
  /\ UNCHANGED <<clock, sheetCfg, remote, ready, indexByCPF, chk, setInscr,
                 rday, newIndex, rrows, req, hdr, scan, pick>>

\* useServiceAccountAuth and loadInfo have returned
LoadInfoDone ==
  /\ rpc = "loadInfo"
  /\ rpc' = "profiles"
  /\ UNCHANGED <<clock, sheetCfg, remote, ready, indexByCPF, chk, setInscr,
                 rday, newIndex, rrows, nRefresh, rerr, req, hdr, scan, pick>>

\* the loop over PERFIS has run; the loop over the check-in tables starts
ProfilesDone ==
  /\ rpc = "profiles"
  /\ ContinueDays(1, BuildIndex)
  /\ UNCHANGED <<clock, sheetCfg, remote, chk, setInscr, rrows, nRefresh,
                 rerr, req, hdr, scan, pick>>

\* loadHeaderRow of a check-in table has returned: its columns are
\* resolved and, when all four are found, published; getRows is issued
DayHeaderDone ==
  /\ rpc = "dayHeader"
  /\ LET day == Days[rday]
         headers == sheetCfg[day].headers
         idx == ResolveDay(headers)
     IN IF DayResolved(idx)
        THEN /\ chk' = [chk EXCEPT ![day] =
                          [ws |-> day, headers |-> headers, idx |-> idx]]
             /\ rpc' = "dayRows"
             /\ UNCHANGED <<indexByCPF, ready, rday, newIndex>>
        ELSE /\ ContinueDays(rday + 1, newIndex)
             /\ UNCHANGED chk
  /\ UNCHANGED <<clock, sheetCfg, remote, setInscr, rrows, nRefresh, rerr, req, hdr, scan, pick>>

\* the remote store serves the pending getRows
DayRowsRead ==
  /\ rpc = "dayRows"
  /\ rrows' = remote[Days[rday]]
  /\ rpc' = "dayApply"
  /\ UNCHANGED <<clock, sheetCfg, remote, ready, indexByCPF, chk, setInscr,
                 rday, newIndex, nRefresh, rerr, req, hdr, scan, pick>>

\* getRows has returned: the day's set is cleared and refilled
DayApply ==
  /\ rpc = "dayApply"
  /\ setInscr' = [setInscr EXCEPT ![Days[rday]] = RowsToSet(rrows)]
  /\ rrows' = <<>>
  /\ ContinueDays(rday + 1, newIndex)
  /\ UNCHANGED <<clock, sheetCfg, remote, chk, nRefresh, rerr, req, hdr, scan, pick>>

\* a failed run that also drops the index and the readiness
InitSheetsThrow_reset ==
  /\ rpc # "idle"
  /\ rpc' = "idle"
  /\ rday' = 0
  /\ newIndex' = EmptyIndex
  /\ rrows' = <<>>
  /\ rerr' = IF rpc = "loadInfo" THEN "loadInfo" ELSE "later"
  /\ indexByCPF' = EmptyIndex
  /\ ready' = FALSE
  /\ UNCHANGED <<clock, sheetCfg, remote, chk, setInscr, nRefresh, req, hdr, scan, pick>>

\* the remote call initSheets is suspended on fails: the run ends with
\* the error, caught and logged by its caller
InitSheetsThrow ==
  /\ rpc # "idle"
  /\ rpc' = "idle"
  /\ rday' = 0
  /\ newIndex' = EmptyIndex
  /\ rrows' = <<>>
  /\ rerr' = IF rpc = "loadInfo" THEN "loadInfo" ELSE "later"
  /\ UNCHANGED <<clock, sheetCfg, remote, ready, indexByCPF, chk, setInscr,
                 nRefresh, req, hdr, scan, pick>>

(* ------------------------------------------------------------------ *)
(* withRetry                                                           *)
(* ------------------------------------------------------------------ *)
\* the failures addRow may raise: an HTTP error response (response.status)
\* or a socket error (code)
Errors ==
  { [status |-> "429", code |-> "none"],
    [status |-> "none", code |-> "ECONNRESET"],
    [status |-> "none", code |-> "ETIMEDOUT"],
    [status |-> "500", code |-> "none"] }

\* e?.response?.status || e?.code
ErrStatus(e) == IF e.status # "none" THEN e.status ELSE e.code

\* a withRetry that tries again after any failure
ShouldRetry_anyError(tries, e) == tries > 1

\* the condition under which withRetry tries again
ShouldRetry(tries, e) ==
  tries > 1 /\ ErrStatus(e) \in {"429", "ECONNRESET", "ETIMEDOUT"}

RECURSIVE Pow2(_)
Pow2(n) == IF n <= 0 THEN 1 ELSE 2 * Pow2(n - 1)

\* baseMs * Math.pow(2, 3 - tries), baseMs = 300
BackoffWait(tries) == 300 * Pow2(3 - tries)

\* a request that failed with a socket error may have been applied remotely
MayBeApplied(e) == e.code \in {"ECONNRESET", "ETIMEDOUT"}

(* ------------------------------------------------------------------ *)
(* POST /confirm                                                       *)
(* ------------------------------------------------------------------ *)
Res(status, error) == [NoRes EXCEPT !.status = status, !.error = error]

\* the handler without its readiness test
NotReady_never == FALSE

\* if (!state.ready)
NotReady == ~ready

\* state.indexByCPF.get(cpf) is undefined
NotFound(cpf) == cpf \notin DOMAIN indexByCPF

\* the duplicate set of the other day
DaySet_other(sheetName) ==
  setInscr[IF sheetName = "Dia1" THEN "Dia2" ELSE "Dia1"]

\* const set = state.checkin.setInscr[sheetName]
DaySet(sheetName) == setInscr[sheetName]

\* another request for the same table and registration number is between
\* its duplicate check and the end of its append
Overlaps(r, sheetName, inscricao) ==
  \E o \in Req \ {r} :
    /\ req[o].pc \in {"addRow", "backoff"}
    /\ req[o].sheetName = sheetName
    /\ req[o].inscricao = inscricao

\* state.indexByCPF.get(cpf): the record, or NoRecord for undefined
NoRecord == [aba |-> "", nome |-> <<>>, inscricao |-> <<>>]
IndexGet(cpf) == IF cpf \in DOMAIN indexByCPF THEN indexByCPF[cpf] ELSE NoRecord

\* the open window: day table, duplicate check, call of addRow
confirmOpen(r, base, nome, inscricao, sheetName) ==
  IF ChkIncomplete(chk[sheetName])
  THEN [base EXCEPT !.res = Res(500, "MisconfiguredDayTable")]
  ELSE IF inscricao \in DaySet(sheetName)
  THEN [base EXCEPT !.res = [Res(409, "AlreadyConfirmed") EXCEPT
                               !.nome = nome,
                               !.inscricao = inscricao,
                               !.dia = sheetName]]
  ELSE [base EXCEPT !.pc = "addRow", !.nome = nome,
                    !.inscricao = inscricao, !.sheetName = sheetName,
                    !.tries = 3,
                    !.overlap = Overlaps(r, sheetName, inscricao)]

\* the window check; t is the clock reading of getWindowStatus, t2 that
\* of the countdown
confirmWindow(r, base, nome, inscricao, t, t2) ==
  LET win == getWindowStatus(t)
  IN
  IF win.status = "before"
  THEN [base EXCEPT
          !.at = t, !.at2 = t2,
          !.res = [Res(400, "OutsideWindowWaiting") EXCEPT
                     !.errorCode = "FORA_HORARIO_AGUARDE",
                     !.nome = nome,
                     !.proximoDia = win.nextDay,
                     !.horas = Countdown(win.nextStart, t2).hh,
                     !.minutos = Countdown(win.nextStart, t2).mm]]
  ELSE IF win.status = "after"
  THEN [base EXCEPT !.res = [Res(400, "EventClosed") EXCEPT
                               !.errorCode = "EVENTO_ENCERRADO"]]
  ELSE IF win.status # "open"
  THEN [base EXCEPT !.res = Res(400, "OutsideWindowGeneric")]
  ELSE confirmOpen(r, base, nome, inscricao, win.day)

\* the lookup with the closed event reported before it
confirmLookup_windowFirst(r, base, cpf, t, t2) ==
  IF getWindowStatus(t).status = "after"
  THEN [base EXCEPT !.res = [Res(400, "EventClosed") EXCEPT
                               !.errorCode = "EVENTO_ENCERRADO"]]
  ELSE IF NotFound(cpf) THEN [base EXCEPT !.res = Res(404, "NotRegistered")]
  ELSE IF IndexGet(cpf).inscricao = <<>>
  THEN [base EXCEPT !.res = [Res(400, "NoRegistrationNumber") EXCEPT
                               !.nome = IndexGet(cpf).nome]]
  ELSE confirmWindow(r, base, IndexGet(cpf).nome, IndexGet(cpf).inscricao, t, t2)

\* the lookup without the test of the registration number
confirmLookup_noInscrCheck(r, base, cpf, t, t2) ==
  IF NotFound(cpf) THEN [base EXCEPT !.res = Res(404, "NotRegistered")]
  ELSE confirmWindow(r, base, IndexGet(cpf).nome, IndexGet(cpf).inscricao, t, t2)

\* the lookup in the index
confirmLookup(r, base, cpf, t, t2) ==
  IF NotFound(cpf) THEN [base EXCEPT !.res = Res(404, "NotRegistered")]
  ELSE IF IndexGet(cpf).inscricao = <<>>
  THEN [base EXCEPT !.res = [Res(400, "NoRegistrationNumber") EXCEPT
                               !.nome = IndexGet(cpf).nome]]
  ELSE confirmWindow(r, base, IndexGet(cpf).nome, IndexGet(cpf).inscricao, t, t2)

\* the handler from its entry to its first suspension (the call of addRow)
\* or to its response
confirmSync(r, body, t, t2) ==
  LET base == [NewReq EXCEPT !.pc = "done", !.body = body]
  IN
  IF ~schema_validate(body) THEN [base EXCEPT !.res = Res(400, "InvalidInput")]
  ELSE IF NotReady THEN [base EXCEPT !.res = Res(503, "ServiceNotReady")]
  ELSE confirmLookup(r, base, body.cpf.chars, t, t2)

\* whether the handler reaches the before-branch, where it reads the clock again
ReadsClockAgain(r, body, t) ==
  confirmSync(r, body, t, t).res.errorCode = "FORA_HORARIO_AGUARDE"

\* a request arrives and its handler runs to its response or to addRow
Confirm(r) ==
  /\ req[r].pc = "new"
  /\ IF r = 1 THEN TRUE ELSE req[r - 1].pc # "new"
  /\ \E body \in Bodies, t \in {u \in Instants : u >= clock} :
     \E t2 \in LaterInstants(t) :
       /\ t2 # t => ReadsClockAgain(r, body, t)
       /\ req' = [req EXCEPT ![r] = confirmSync(r, body, t, t2)]
       /\ clock' = t2
  /\ UNCHANGED <<sheetCfg, remote, ready, indexByCPF, chk, setInscr,
                 rpc, rday, newIndex, rrows, nRefresh, rerr, hdr, scan, pick>>

\* an append the remote table does not keep
AddRow_dropped(rows, inscricao, nome) == rows

\* an addRow that leaves the table alone when it holds the number already
AddRow_upsert(rows, inscricao, nome) ==
  IF \E k \in 1..Len(rows) : Trim(rows[k].inscricao) = inscricao
  THEN rows
  ELSE Append(rows, Row(inscricao, nome))

\* chk.ws.addRow(...) applied by the remote store
AddRow(rows, inscricao, nome) == Append(rows, Row(inscricao, nome))

\* set.add(inscricao)
\* an insert that forgets the numbers the set held
SetAdd_replace(set, inscricao) == {inscricao}

SetAdd(set, inscricao) == set \cup {inscricao}

\* the handler responds: its locals are gone
Done(q, appended, res) ==
  [NewReq EXCEPT !.pc = "done", !.body = q.body, !.overlap = q.overlap,
                 !.appended = appended, !.res = res]

\* a success that also takes the confirmed identity out of the index
AddRowOk_dropsRecord(r) ==
  /\ req[r].pc = "addRow"
  /\ LET day == req[r].sheetName
     IN /\ remote' = [remote EXCEPT ![day] =
                        AddRow(@, req[r].inscricao, req[r].nome)]
        /\ setInscr' = [setInscr EXCEPT ![day] = SetAdd(@, req[r].inscricao)]
        /\ req' = [req EXCEPT ![r] =
                     Done(req[r], req[r].appended + 1,
                          [Res(200, "none") EXCEPT
                             !.inscricao = req[r].inscricao,
                             !.nome = req[r].nome,
                             !.dia = day])]
  /\ indexByCPF' = [c \in DOMAIN indexByCPF \ {req[r].body.cpf.chars}
                      |-> indexByCPF[c]]
  /\ UNCHANGED <<clock, sheetCfg, ready, chk,
                 rpc, rday, newIndex, rrows, nRefresh, rerr, hdr, scan, pick>>

\* addRow resolves: the set is updated and the success response sent
AddRowOk(r) ==
  /\ req[r].pc = "addRow"
  /\ LET day == req[r].sheetName
     IN /\ remote' = [remote EXCEPT ![day] =
                        AddRow(@, req[r].inscricao, req[r].nome)]
        /\ setInscr' = [setInscr EXCEPT ![day] = SetAdd(@, req[r].inscricao)]
        /\ req' = [req EXCEPT ![r] =
                     Done(req[r], req[r].appended + 1,
                          [Res(200, "none") EXCEPT
                             !.inscricao = req[r].inscricao,
                             !.nome = req[r].nome,
                             !.dia = day])]
  /\ UNCHANGED <<clock, sheetCfg, ready, indexByCPF, chk,
                 rpc, rday, newIndex, rrows, nRefresh, rerr, hdr, scan, pick>>

\* a catch block that does not tell the rate limit apart
CatchRes_always500(e) == Res(500, "InternalError")

\* the response of the catch block for error e
CatchRes(e) ==
  IF e.status = "429" THEN Res(503, "ServiceBusy") ELSE Res(500, "InternalError")

\* a handler that records the number in the set before awaiting the
\* append, so that a rejected attempt leaves it there
AddRowFail_addsToSet(r) ==
  /\ req[r].pc = "addRow"
  /\ \E e \in Errors, applied \in BOOLEAN :
       /\ applied => MayBeApplied(e)
       /\ remote' = IF applied
                    THEN [remote EXCEPT ![req[r].sheetName] =
                            AddRow(@, req[r].inscricao, req[r].nome)]
                    ELSE remote
       /\ req' = [req EXCEPT ![r] =
                    IF ShouldRetry(req[r].tries, e)
                    THEN [@ EXCEPT !.pc = "backoff",
                                   !.wait = BackoffWait(req[r].tries),
                                   !.err = ErrStatus(e),
                                   !.tries = @ - 1,
                                   !.appended = IF applied THEN @ + 1 ELSE @]
                    ELSE [Done(req[r],
                               IF applied THEN req[r].appended + 1
                                          ELSE req[r].appended,
                               CatchRes(e))
                            EXCEPT !.err = ErrStatus(e)]]
  /\ setInscr' = [setInscr EXCEPT ![req[r].sheetName] =
                    SetAdd(@, req[r].inscricao)]
  /\ UNCHANGED <<clock, sheetCfg, ready, indexByCPF, chk,
                 rpc, rday, newIndex, rrows, nRefresh, rerr, hdr, scan, pick>>

\* addRow rejects with e: withRetry waits and tries again, or rethrows
\* into the handler's catch block
AddRowFail(r) ==
  /\ req[r].pc = "addRow"
  /\ \E e \in Errors, applied \in BOOLEAN :
       /\ applied => MayBeApplied(e)
       /\ remote' = IF applied
                    THEN [remote EXCEPT ![req[r].sheetName] =
                            AddRow(@, req[r].inscricao, req[r].nome)]
                    ELSE remote
       /\ req' = [req EXCEPT ![r] =
                    IF ShouldRetry(req[r].tries, e)
                    THEN [@ EXCEPT !.pc = "backoff",
                                   !.wait = BackoffWait(req[r].tries),
                                   !.err = ErrStatus(e),
                                   !.tries = @ - 1,
                                   !.appended = IF applied THEN @ + 1 ELSE @]
                    ELSE [Done(req[r],
                               IF applied THEN req[r].appended + 1
                                          ELSE req[r].appended,
                               CatchRes(e))
                            EXCEPT !.err = ErrStatus(e)]]
  /\ UNCHANGED <<clock, sheetCfg, ready, indexByCPF, chk, setInscr,
                 rpc, rday, newIndex, rrows, nRefresh, rerr, hdr, scan, pick>>

\* the backoff timer fires: withRetry calls addRow again
BackoffDone(r) ==
  /\ req[r].pc = "backoff"
  /\ req' = [req EXCEPT ![r].pc = "addRow", ![r].wait = 0,
                        ![r].err = "none"]
  /\ UNCHANGED <<clock, sheetCfg, remote, ready, indexByCPF, chk, setInscr,
                 rpc, rday, newIndex, rrows, nRefresh, rerr, hdr, scan, pick>>

Next ==
  \/ InitSheetsStart
  \/ LoadInfoDone
  \/ ProfilesDone
  \/ DayHeaderDone
  \/ DayRowsRead
  \/ DayApply
  \/ InitSheetsThrow
  \/ \E r \in Req : Confirm(r)
  \/ \E r \in Req : AddRowOk(r)
  \/ \E r \in Req : AddRowFail(r)
  \/ \E r \in Req : BackoffDone(r)

Spec == Init /\ [][Next]_vars

(* ------------------------------------------------------------------ *)
(* The window policy over the timeline                                 *)
(* ------------------------------------------------------------------ *)
\* the timeline is walked minute by minute, MaxTicks minutes from
\* 12/08 07:00, starting on the minute, 1 ms after it or 1 ms before the next
MaxTicks == 1980
TickMs == MsPerHour \div 60
TimelineStart == At(12, 7, 0, 0)
TimelineEnd == TimelineStart + MaxTicks * TickMs
TimelineOffsets == {0, 1, TickMs - 1}

\* the handler's window check for a registered identity at instant t
WindowProbe(t) ==
  confirmWindow(1, [NewReq EXCEPT !.pc = "done"],
                <<"A", "n", "a">>, <<"A", "1">>, t, t)

InitWindow ==
  /\ clock \in { TimelineStart + o : o \in TimelineOffsets }
  /\ sheetCfg \in SheetConfigs
  /\ remote = [Dia1 |-> <<>>, Dia2 |-> <<>>]
  /\ ready = TRUE
  /\ indexByCPF = BuildIndex
  /\ chk = [Dia1 |-> NullChk, Dia2 |-> NullChk]
  /\ setInscr = [Dia1 |-> {}, Dia2 |-> {}]
  /\ rpc = "idle"
  /\ rday = 0
  /\ newIndex = EmptyIndex
  /\ rrows = <<>>
  /\ nRefresh = 0
  /\ rerr = "none"
  /\ req = [r \in Req |-> IF r = 1 THEN WindowProbe(clock) ELSE NewReq]
  /\ hdr = NoHeader
  /\ scan = NoScan
  /\ pick = NoPick

\* a minute passes and the window is checked again
TickWindow ==
  /\ clock + TickMs <= TimelineEnd
  /\ clock' = clock + TickMs
  /\ req' = [req EXCEPT ![1] = WindowProbe(clock')]
  /\ UNCHANGED <<sheetCfg, remote, ready, indexByCPF, chk, setInscr,
                 rpc, rday, newIndex, rrows, nRefresh, rerr, hdr, scan, pick>>

SpecWindow == InitWindow /\ [][TickWindow]_vars

(* ------------------------------------------------------------------ *)
(* normalizeHeader over bounded header strings                         *)
(* ------------------------------------------------------------------ *)
MaxHeaderLen == 4

\* the characters headers are drawn from: letters of both cases, plain,
\* precomposed with a mark and decomposed, whitespace, a digit
HeaderChars == {"A", "a", "C_ced", "a_til", "~acu", " ", "TAB", "1"}

HeaderStrings == UNION { [1..n -> HeaderChars] : n \in 0..MaxHeaderLen }

InitHeader ==
  /\ clock = FirstInstant
  /\ sheetCfg \in SheetConfigs
  /\ remote = [Dia1 |-> <<>>, Dia2 |-> <<>>]
  /\ ready = FALSE
  /\ indexByCPF = EmptyIndex
  /\ chk = [Dia1 |-> NullChk, Dia2 |-> NullChk]
  /\ setInscr = [Dia1 |-> {}, Dia2 |-> {}]
  /\ rpc = "idle"
  /\ rday = 0
  /\ newIndex = EmptyIndex
  /\ rrows = <<>>
  /\ nRefresh = 0
  /\ rerr = "none"
  /\ req = [r \in Req |-> NewReq]
  /\ hdr \in { [NoHeader EXCEPT !.raw = h] : h \in HeaderStrings }
  /\ scan = NoScan
  /\ pick = NoPick

\* normalizeHeader is called: on the header, then on its own result
NormalizeHeader ==
  /\ hdr.applied < 2
  /\ hdr' = IF hdr.applied = 0
            THEN [hdr EXCEPT !.once = normalizeHeader(hdr.raw), !.applied = 1]
            ELSE [hdr EXCEPT !.twice = normalizeHeader(hdr.once), !.applied = 2]
  /\ UNCHANGED <<clock, sheetCfg, remote, ready, indexByCPF, chk, setInscr,
                 rpc, rday, newIndex, rrows, nRefresh, rerr, req, scan, pick>>

SpecHeader == InitHeader /\ [][NormalizeHeader]_vars

(* ------------------------------------------------------------------ *)
(* The merge rule over bounded profile rows                            *)
(* ------------------------------------------------------------------ *)
MaxRows == 3

\* the cells the rows are drawn from: identity numbers of two people and
\* one without digits; registration numbers absent, blank or present
ScanCpfCells == {<<"1">>, <<"2">>, <<"-">>}
ScanInscrCells == {<<>>, <<" ">>, <<"X">>, <<" ", "Y">>}
ScanAbas == <<"Conselheiros", "Staffs">>

\* the rows of a scan: the k-th row carries k as its name; the tables
\* come in the order of PERFIS
ScanInputs ==
  { rows \in UNION { [1..n -> [aba : 1..Len(ScanAbas),
                               cpf : ScanCpfCells,
                               inscr : ScanInscrCells]] : n \in 0..MaxRows } :
      \A k \in 1..(Len(rows) - 1) : rows[k].aba <= rows[k + 1].aba }

\* the cells of the k-th row: identity number, name, registration number
ScanCells(rows, k) == <<rows[k].cpf, String(k), rows[k].inscr>>

InitMerge ==
  /\ clock = FirstInstant
  /\ sheetCfg \in SheetConfigs
  /\ remote = [Dia1 |-> <<>>, Dia2 |-> <<>>]
  /\ ready = FALSE
  /\ indexByCPF = EmptyIndex
  /\ chk = [Dia1 |-> NullChk, Dia2 |-> NullChk]
  /\ setInscr = [Dia1 |-> {}, Dia2 |-> {}]
  /\ rpc = "profiles"
  /\ rday = 0
  /\ newIndex = EmptyIndex
  /\ rrows = <<>>
  /\ nRefresh = 1
  /\ rerr = "none"
  /\ req = [r \in Req |-> NewReq]
  /\ hdr = NoHeader
  /\ scan \in { [NoScan EXCEPT !.rows = rows] : rows \in ScanInputs }
  /\ pick = NoPick

\* the loop body of lines 191-209 runs for the next row
MergeNext ==
  /\ scan.pos < Len(scan.rows)
  /\ LET k == scan.pos + 1
         merged == MergeRow(newIndex, ScanAbas[scan.rows[k].aba],
                            ScanCells(scan.rows, k), 0, 1, 2)
     IN /\ newIndex' = merged
        /\ scan' = [scan EXCEPT
                      !.pos = k,
                      !.sets = IF merged = newIndex THEN @
                               ELSE Append(@, StripNonDigits(scan.rows[k].cpf))]
  /\ UNCHANGED <<clock, sheetCfg, remote, ready, indexByCPF, chk, setInscr,
                 rpc, rday, rrows, nRefresh, rerr, req, hdr, pick>>

SpecMerge == InitMerge /\ [][MergeNext]_vars

(* ------------------------------------------------------------------ *)
(* The choice of the registration column on drawn header rows          *)
(* ------------------------------------------------------------------ *)
MaxHeads == 3

\* the headers the drawn columns are taken from: "Inscrição",
\* "Status da Inscrição", "Tipo de inscr.", "CATEGORIA  INSCRIÇÃO",
\* "Situação Inscr", "Data", "Status"
HeadWords ==
  { <<"I", "n", "s", "c", "r", "i", "c_ced", "a_til", "o">>,
    <<"S", "t", "a", "t", "u", "s", " ", "d", "a", " ",
      "I", "n", "s", "c", "r", "i", "c_ced", "a_til", "o">>,
    <<"T", "i", "p", "o", " ", "d", "e", " ", "i", "n", "s", "c", "r", ".">>,
    <<"C", "A", "T", "E", "G", "O", "R", "I", "A", " ", " ",
      "I", "N", "S", "C", "R", "I", "C_ced", "A_til", "O">>,
    <<"S", "i", "t", "u", "a", "c_ced", "a_til", "o", " ", "I", "n", "s", "c", "r">>,
    <<"D", "a", "t", "a">>,
    <<"S", "t", "a", "t", "u", "s">> }

\* header rows name each column once
HeadLists ==
  { hs \in UNION { [1..n -> HeadWords] : n \in 0..MaxHeads } :
      \A i, j \in DOMAIN hs : i # j => hs[i] # hs[j] }

\* the profile table with the drawn columns after an identity column and a
\* name column; its one row holds, in each drawn column, that column's
\* 0-based position
PickSheet(hs) ==
  [exists |-> TRUE,
   headers |-> << <<"C", "P", "F">>, <<"N", "o", "m", "e">> >> \o hs,
   rows |-> << << cpfX, <<"X", "u">> >> \o [j \in DOMAIN hs |-> String(j + 1)] >>]

InitPick ==
  /\ clock = FirstInstant
  /\ sheetCfg \in SheetConfigs
  /\ remote = [Dia1 |-> <<>>, Dia2 |-> <<>>]
  /\ ready = FALSE
  /\ indexByCPF = EmptyIndex
  /\ chk = [Dia1 |-> NullChk, Dia2 |-> NullChk]
  /\ setInscr = [Dia1 |-> {}, Dia2 |-> {}]
  /\ rpc = "profiles"
  /\ rday = 0
  /\ newIndex = EmptyIndex
  /\ rrows = <<>>
  /\ nRefresh = 1
  /\ rerr = "none"
  /\ req = [r \in Req |-> NewReq]
  /\ hdr = NoHeader
  /\ scan = NoScan
  /\ pick \in { [NoPick EXCEPT !.headers = hs] : hs \in HeadLists }

\* the loop body of lines 173-210 runs for the drawn table
PickScan ==
  /\ pick.step = 0
  /\ newIndex' = ScanSheet(newIndex, PERFIS[1], PickSheet(pick.headers))
  /\ pick' = [pick EXCEPT
                !.step = 1,
                !.iInscr = pickInscricaoIndex(
                             NormHeaders(PickSheet(pick.headers).headers))]
  /\ UNCHANGED <<clock, sheetCfg, remote, ready, indexByCPF, chk, setInscr,
                 rpc, rday, rrows, nRefresh, rerr, req, hdr, scan>>

\* the loop goes on to the next table of PERFIS
PickContinue ==
  /\ pick.step = 1
  /\ newIndex' = ScanProfile(newIndex, PERFIS[4])
  /\ pick' = [pick EXCEPT !.step = 2]
  /\ UNCHANGED <<clock, sheetCfg, remote, ready, indexByCPF, chk, setInscr,
                 rpc, rday, rrows, nRefresh, rerr, req, hdr, scan>>

SpecPick == InitPick /\ [][PickScan \/ PickContinue]_vars

(* ------------------------------------------------------------------ *)
(* Properties                                                          *)
(* ------------------------------------------------------------------ *)
DayNames == {"Dia1", "Dia2"}
OtherDay(d) == IF d = "Dia1" THEN "Dia2" ELSE "Dia1"

\* the step in which the handler of request r runs
Handled(r) == req[r].pc = "new" /\ req'[r].pc # "new"

\* the instant at which that step's request arrived
ReqTime(r) == IF req'[r].at # 0 THEN req'[r].at ELSE clock'

\* that step's body and identity number
BodyOf(r) == req'[r].body
CpfOf(r) == req'[r].body.cpf.chars

\* a step in which request r, suspended on its append, goes on
Resumed(r) == req[r].pc \in {"addRow", "backoff"} /\ req'[r] # req[r]

\* the rows of day d's table that carry registration number i
RowsFor(rows, i) == { k \in 1..Len(rows) : Trim(rows[k].inscricao) = i }

DigitVal(c) == CHOOSE n \in 0..9 : DigitChar(n) = c

RECURSIVE ParseInt(_)
ParseInt(s) ==
  IF s = <<>> THEN 0
  ELSE IF Head(s) = "-" THEN -ParseInt(Tail(s))
  ELSE ParseInt(SubSeq(s, 1, Len(s) - 1)) * 10 + DigitVal(s[Len(s)])

\* the minutes a countdown response announces
TotalMin(res) == ParseInt(res.horas) * 60 + ParseInt(res.minutos)

InWindow(t, d) ==
  IF d = "Dia1" THEN d1Start <= t /\ t <= d1End
                ELSE d2Start <= t /\ t <= d2End

StartRows == IF sheetCfg.Dia1.exists THEN InitialDia1Rows ELSE <<>>

\* C1 (as claimed): each day table holds at most one row per registration
\* number, and the rows the table started with are still its first rows.
C1_OneRowPerRegistration ==
  /\ \A d \in DayNames : \A i \in RowsToSet(remote[d]) :
       Cardinality(RowsFor(remote[d], i)) <= 1
  /\ Len(remote.Dia1) >= Len(StartRows)
  /\ SubSeq(remote.Dia1, 1, Len(StartRows)) = StartRows

\* C2 (as claimed): once a request for an identity number was answered 200
\* for a day table, a later request for the same number that arrives while
\* that day's window is open is answered 409 with the same inscricao and
\* dia, and appends nothing.
C2_SecondAttemptRejected ==
  [][\A r \in Req : \A o \in Req \ {r} :
       ( /\ Handled(r)
         /\ req[o].res.status = 200
         /\ req[o].body = BodyOf(r)
         /\ getWindowStatus(ReqTime(r)).status = "open"
         /\ getWindowStatus(ReqTime(r)).day = req[o].res.dia )
       => /\ req'[r].res.status = 409
          /\ req'[r].res.inscricao = req[o].res.inscricao
          /\ req'[r].res.dia = req[o].res.dia
          /\ remote' = remote]_vars

\* C3: a request whose registration number is not in the day's set passes
\* the duplicate check even while another request for the same table and
\* number is between its own check and the end of its append, and every
\* append that succeeds adds a row whatever rows the table holds.
C3_ConcurrentBothAppend ==
  [][\A r \in Req :
       /\ ( /\ Handled(r)
            /\ schema_validate(BodyOf(r))
            /\ ready
            /\ ~NotFound(CpfOf(r))
            /\ IndexGet(CpfOf(r)).inscricao # <<>>
            /\ getWindowStatus(ReqTime(r)).status = "open"
            /\ ~ChkIncomplete(chk[getWindowStatus(ReqTime(r)).day])
            /\ IndexGet(CpfOf(r)).inscricao
                 \notin setInscr[getWindowStatus(ReqTime(r)).day]
            /\ Overlaps(r, getWindowStatus(ReqTime(r)).day,
                        IndexGet(CpfOf(r)).inscricao) )
          => /\ req'[r].pc = "addRow"
             /\ req'[r].overlap
       /\ ( /\ req[r].pc = "addRow"
            /\ req'[r].res.status = 200 )
          => Cardinality(RowsFor(remote'[req[r].sheetName], req[r].inscricao))
               = Cardinality(RowsFor(remote[req[r].sheetName], req[r].inscricao)) + 1
    ]_vars

\* C3, witness: two requests for the same number were both answered 200 for
\* the same day, one having passed the check while the other was appending,
\* and the table holds two rows for the number.
C3_Witness ==
  \E r \in Req : \E o \in Req \ {r} :
    /\ req[r].res.status = 200 /\ req[o].res.status = 200
    /\ req[r].res.inscricao = req[o].res.inscricao
    /\ req[r].res.dia = req[o].res.dia
    /\ req[r].overlap
    /\ req[r].appended = 1 /\ req[o].appended = 1
    /\ Cardinality(RowsFor(remote[req[r].res.dia], req[r].res.inscricao)) = 2

\* C4 (as claimed): a valid identity number absent from the index is
\* answered 404 and appends nothing.
C4_AbsentIs404 ==
  [][\A r \in Req :
       ( /\ Handled(r)
         /\ schema_validate(BodyOf(r))
         /\ CpfOf(r) \notin DOMAIN indexByCPF )
       => /\ req'[r].res = Res(404, "NotRegistered")
          /\ remote' = remote]_vars

\* C4 (amended): once the service is ready, a valid identity number absent
\* from the index is answered 404 at any instant, and appends nothing.
C4_AbsentIs404WhenReady ==
  [][\A r \in Req :
       ( /\ Handled(r)
         /\ schema_validate(BodyOf(r))
         /\ ready
         /\ CpfOf(r) \notin DOMAIN indexByCPF )
       => /\ req'[r].res = Res(404, "NotRegistered")
          /\ req'[r].pc = "done"
          /\ remote' = remote]_vars

\* C4, witness: the first request, for an absent number, was answered 404
\* after the event had closed.
C4_Witness ==
  /\ req[1].res.status = 404
  /\ req[1].body.cpf.chars = cpfX
  /\ req[2].pc = "new"
  /\ getWindowStatus(clock).status = "after"

\* C5: an identity number whose record has an empty registration number is
\* answered 400 NoRegistrationNumber with the record's name at any instant;
\* nothing is appended and no duplicate set changes.
C5_EmptyRegistrationIs400 ==
  [][\A r \in Req :
       ( /\ Handled(r)
         /\ schema_validate(BodyOf(r))
         /\ CpfOf(r) \in DOMAIN indexByCPF
         /\ indexByCPF[CpfOf(r)].inscricao = <<>> )
       => /\ req'[r].res = [Res(400, "NoRegistrationNumber") EXCEPT
                              !.nome = indexByCPF[CpfOf(r)].nome]
          /\ req'[r].pc = "done"
          /\ remote' = remote
          /\ setInscr' = setInscr]_vars

\* C5, witness: the first request, for such a number, was answered 400 with
\* the name while a window was open.
C5_Witness ==
  /\ req[1].res.error = "NoRegistrationNumber"
  /\ req[1].res.nome = <<"E", "v", "a">>
  /\ req[1].body.cpf.chars = cpfE
  /\ req[2].pc = "new"
  /\ getWindowStatus(clock).status = "open"

\* C6 (as claimed): after the end of the second day every identity number,
\* in the index or not, is answered EventClosed.
C6_ClosedForEveryone ==
  [][\A r \in Req :
       ( /\ Handled(r)
         /\ schema_validate(BodyOf(r))
         /\ ready
         /\ ReqTime(r) > d2End )
       => /\ req'[r].res.status = 400
          /\ req'[r].res.errorCode = "EVENTO_ENCERRADO"]_vars

\* C6 (amended): from the minute after the end of the second day on, the
\* ready service answers EventClosed to every identity number of the index
\* that has a registration number, 404 to a number absent from the index,
\* and NoRegistrationNumber to one without registration number; nothing is
\* appended.
C6_ClosedForRegistered ==
  [][\A r \in Req :
       ( /\ Handled(r)
         /\ schema_validate(BodyOf(r))
         /\ ready
         /\ currentSpDate(ReqTime(r)) > d2End )
       => /\ req'[r].pc = "done"
          /\ remote' = remote
          /\ req'[r].res.error =
               IF CpfOf(r) \notin DOMAIN indexByCPF THEN "NotRegistered"
               ELSE IF indexByCPF[CpfOf(r)].inscricao = <<>>
                    THEN "NoRegistrationNumber"
                    ELSE "EventClosed"
          /\ req'[r].res.error = "EventClosed"
               => /\ req'[r].res.status = 400
                  /\ req'[r].res.errorCode = "EVENTO_ENCERRADO"]_vars

\* C6, witness: a registered number was answered EventClosed.
C6_Witness ==
  \E r \in Req :
    /\ req[r].res.errorCode = "EVENTO_ENCERRADO"
    /\ req[r].body.cpf.chars = cpfA

\* C7 (as claimed): countdown responses for the first day are non-negative,
\* and of two of them the one of the later request announces strictly less.
C7_StrictlyDecreasing ==
  \A r \in Req :
    req[r].res.error = "OutsideWindowWaiting" /\ req[r].at < d1Start
    => /\ req[r].res.proximoDia = "Dia1"
       /\ TotalMin(req[r].res) >= 0
       /\ \A o \in Req :
            ( /\ req[o].res.error = "OutsideWindowWaiting"
              /\ req[o].at < d1Start
              /\ req[r].at < req[o].at )
            => TotalMin(req[r].res) > TotalMin(req[o].res)

\* C7 (amended): a request of a registered identity with a registration
\* number that arrives before the start of the first day is answered
\* OutsideWindowWaiting for Dia1 with a non-negative countdown; the
\* countdown never exceeds that of an earlier such response, and is
\* strictly less when its clock reading lies in a later minute than the
\* earlier one's and still before the start.
C7_DecreasingByMinute ==
  [][\A r \in Req :
       ( /\ Handled(r)
         /\ schema_validate(BodyOf(r))
         /\ CpfOf(r) \in DOMAIN indexByCPF
         /\ indexByCPF[CpfOf(r)].inscricao # <<>>
         /\ ReqTime(r) < d1Start )
       => /\ req'[r].res.error = "OutsideWindowWaiting"
          /\ req'[r].res.status = 400
          /\ req'[r].res.proximoDia = "Dia1"
          /\ ParseInt(req'[r].res.horas) >= 0
          /\ ParseInt(req'[r].res.minutos) >= 0
          /\ \A o \in Req \ {r} :
               ( /\ req[o].res.error = "OutsideWindowWaiting"
                 /\ req[o].res.proximoDia = "Dia1" )
               => /\ TotalMin(req[o].res) >= TotalMin(req'[r].res)
                  /\ ( /\ currentSpDate(req[o].at2) < currentSpDate(req'[r].at2)
                       /\ req'[r].at2 < d1Start )
                     => TotalMin(req[o].res) > TotalMin(req'[r].res)]_vars

\* C7, witness: two countdown responses for the first day, the later
\* request's announcing strictly less.
C7_Witness ==
  /\ req[1].res.error = "OutsideWindowWaiting"
  /\ req[2].res.error = "OutsideWindowWaiting"
  /\ req[1].res.proximoDia = "Dia1" /\ req[2].res.proximoDia = "Dia1"
  /\ req[1].at < req[2].at /\ req[2].at2 < d1Start
  /\ TotalMin(req[1].res) > TotalMin(req[2].res)
  /\ TotalMin(req[2].res) > 0

\* C8: a request that arrives within a day's window is checked against that
\* day's set alone and appends to that day's table alone; the other day's
\* set and table are left as they are.
C8_OnlyTheOpenDay ==
  [][\A r \in Req : \A d \in DayNames :
       /\ ( /\ Handled(r)
            /\ schema_validate(BodyOf(r))
            /\ ready
            /\ CpfOf(r) \in DOMAIN indexByCPF
            /\ indexByCPF[CpfOf(r)].inscricao # <<>>
            /\ InWindow(ReqTime(r), d)
            /\ ~ChkIncomplete(chk[d]) )
          => IF indexByCPF[CpfOf(r)].inscricao \in setInscr[d]
             THEN /\ req'[r].res.status = 409
                  /\ req'[r].res.dia = d
             ELSE /\ req'[r].pc = "addRow"
                  /\ req'[r].sheetName = d
       /\ Handled(r) => remote' = remote /\ setInscr' = setInscr
       /\ ( Resumed(r) /\ req[r].sheetName = d )
          => /\ remote'[OtherDay(d)] = remote[OtherDay(d)]
             /\ setInscr'[OtherDay(d)] = setInscr[OtherDay(d)]
             /\ remote'[d] \in { remote[d],
                                 Append(remote[d],
                                        Row(req[r].inscricao, req[r].nome)) }
             /\ setInscr'[d] \in { setInscr[d],
                                   setInscr[d] \cup {req[r].inscricao} }
             /\ req'[r].res.status = 200 => req'[r].res.dia = d]_vars

\* C8, witness: a check-in was recorded on each day, each in its own table
\* and set only.
C8_Witness ==
  /\ req[1].res.status = 200 /\ req[1].res.dia = "Dia1"
  /\ req[2].res.status = 200 /\ req[2].res.dia = "Dia2"
  /\ req[1].res.inscricao = <<"B", "2">>
  /\ req[2].res.inscricao = <<"A", "1">>
  /\ <<"B", "2">> \in setInscr.Dia1 /\ <<"B", "2">> \notin setInscr.Dia2
  /\ <<"A", "1">> \in setInscr.Dia2
  /\ RowsFor(remote.Dia2, <<"B", "2">>) = {}

\* C9: while state.ready is false every valid request is answered 503
\* ServiceNotReady, whatever its identity number and instant, and nothing
\* is appended or changed.
C9_NotReadyIs503 ==
  [][\A r \in Req :
       ( /\ Handled(r)
         /\ schema_validate(BodyOf(r))
         /\ ~ready )
       => /\ req'[r].res = Res(503, "ServiceNotReady")
          /\ req'[r].pc = "done"
          /\ UNCHANGED <<remote, ready, indexByCPF, chk, setInscr>>]_vars

\* C9, witness: a valid request was answered ServiceNotReady during a
\* window, the service still not ready.
C9_Witness ==
  /\ req[1].res.error = "ServiceNotReady"
  /\ req[1].body.cpf.chars = cpfA
  /\ req[2].pc = "new"
  /\ ~ready
  /\ getWindowStatus(clock).status = "open"

\* C10: a request whose body is not exactly { cpf: eleven ASCII digits } is
\* answered 400 InvalidInput, ready or not, and the index, the sets and the
\* remote tables stay as they are.
C10_InvalidInputFirst ==
  [][\A r \in Req :
       ( /\ Handled(r)
         /\ \/ BodyOf(r).keys # {"cpf"}
            \/ BodyOf(r).cpf.type # "string"
            \/ Len(BodyOf(r).cpf.chars) # 11
            \/ \E i \in 1..Len(BodyOf(r).cpf.chars) :
                 BodyOf(r).cpf.chars[i] \notin Digits )
       => /\ req'[r].res = Res(400, "InvalidInput")
          /\ req'[r].pc = "done"
          /\ UNCHANGED <<remote, ready, indexByCPF, chk, setInscr>>]_vars

\* C10, witness: a body with a second field was answered InvalidInput
\* before the first build of the index had begun.
C10_Witness ==
  /\ req[1].res.error = "InvalidInput"
  /\ req[1].body.keys = {"cpf", "nome"}
  /\ nRefresh = 0
  /\ ~ready
\* C11: a run of initSheets that fails at authentication or loadInfo leaves
\* the index and state.ready as they were; state.ready turns true only in
\* the step that ends a successful build, together with the new index, and
\* never turns false again.
C11_FailedLoadKeepsIndex ==
  [][/\ (rpc = "loadInfo" /\ rpc' = "idle")
       => /\ rerr' = "loadInfo"
          /\ indexByCPF' = indexByCPF
          /\ ready' = ready
     /\ ready => ready'
     /\ (~ready /\ ready')
       => /\ rpc \in {"profiles", "dayHeader", "dayApply"}
          /\ rpc' = "idle"
          /\ rerr' = "none"
          /\ indexByCPF' = BuildIndex]_vars

\* C11, witness: the refresh after a successful build failed at loadInfo;
\* the service is still ready with the index of the first build.
C11_Witness ==
  /\ rerr = "loadInfo"
  /\ nRefresh = 2
  /\ rpc = "idle"
  /\ ready
  /\ indexByCPF = BuildIndex
  /\ indexByCPF # EmptyIndex
\* the check-in tables whose column mapping the running initSheets has
\* already written into state.checkin (lines 231-233), the swap of the index
\* (line 245) still ahead
WrittenDays ==
  { k \in 1..Len(Days) :
      /\ rpc \in {"dayHeader", "dayRows", "dayApply"}
      /\ sheetCfg[Days[k]].exists
      /\ DayResolved(ResolveDay(sheetCfg[Days[k]].headers))
      /\ \/ k < rday
         \/ k = rday /\ rpc \in {"dayRows", "dayApply"} }

\* C12 (as claimed): no request that consults the index and a day's
\* duplicate set is handled while a refresh has rewritten a day's column
\* mapping or set and has not yet swapped the index in: it sees all of them
\* old or all of them new.
C12_NoMixObserved ==
  [][\A r \in Req :
       ( /\ Handled(r)
         /\ ready
         /\ \/ req'[r].res.status = 409
            \/ req'[r].pc = "addRow" )
       => WrittenDays = {}]_vars
\* C13: every step of a request's handler, whatever its outcome, leaves
\* state.indexByCPF as it is; the index changes only in the step in which
\* initSheets ends a build, and then to the index that run has built.
C13_RequestsKeepIndex ==
  [][/\ \A r \in Req : req'[r] # req[r] => indexByCPF' = indexByCPF
     /\ indexByCPF' # indexByCPF
       => /\ rpc # "idle" /\ rpc' = "idle" /\ rerr' = "none"
          /\ req' = req
          /\ indexByCPF' = BuildIndex]_vars

\* C13, witness: one request was answered 200 and another failed in its
\* append, and the index is the one the build produced.
C13_Witness ==
  /\ req[1].res.status = 200
  /\ req[2].res.status \in {500, 503}
  /\ req[2].res.error \in {"ServiceBusy", "InternalError"}
  /\ indexByCPF = BuildIndex
  /\ req[1].body.cpf.chars \in DOMAIN indexByCPF
\* the statuses withRetry retries
Transient == {"429", "ECONNRESET", "ETIMEDOUT"}

\* the number of the attempt a request in withRetry is making or waits for
Attempt(q) == 4 - q.tries

\* what is left of withRetry: it decreases with every step of the request
Remaining(q) ==
  IF q.pc = "addRow" THEN 2 * q.tries - 1
  ELSE IF q.pc = "backoff" THEN 2 * q.tries
  ELSE 0

C15_AtMostOneRow ==
  \A r \in Req :
    /\ req[r].appended <= 1
    /\ ( req[r].pc = "done"
         /\ req[r].res.status # 200
         /\ req[r].err = "none" ) => req[r].appended = 0
\* C16: when withRetry rethrows, the handler answers ServiceBusy (503) if
\* the error carries status 429 and InternalError (500) otherwise, never
\* 200; and a request that has been answered is answered once: nothing of
\* it changes afterwards.
C16_FailureTranslated ==
  [][\A r \in Req :
       /\ ( req[r].pc = "addRow" /\ req'[r].pc = "done"
            /\ req'[r].err # "none" )
          => req'[r].res = IF req'[r].err = "429"
                           THEN Res(503, "ServiceBusy")
                           ELSE Res(500, "InternalError")
       /\ ( req[r].pc = "addRow" /\ req'[r].pc \notin {"addRow", "backoff"}
            /\ req'[r].res.status # 200 )
          => req'[r].err # "none" /\ req'[r].res.status \in {500, 503}
       /\ req[r].pc = "done" => req'[r] = req[r]]_vars

\* C16, witness: one request ended ServiceBusy on a 429 and another
\* InternalError on a connection reset.
C16_Witness ==
  /\ req[1].res = Res(503, "ServiceBusy") /\ req[1].err = "429"
  /\ req[2].res = Res(500, "InternalError") /\ req[2].err = "ECONNRESET"
\* the cases of the window policy that hold of the wall-clock minute m
WindowCases(m) ==
  { c \in {"open1", "open2", "before1", "before2", "after"} :
      \/ c = "open1" /\ d1Start <= m /\ m <= d1End
      \/ c = "open2" /\ d2Start <= m /\ m <= d2End
      \/ c = "before1" /\ m < d1Start
      \/ c = "before2" /\ d1End < m /\ m < d2Start
      \/ c = "after" /\ m > d2End }

\* the case a window status stands for
CaseOf(win) ==
  IF win.status = "open" THEN (IF win.day = "Dia1" THEN "open1" ELSE "open2")
  ELSE IF win.status = "before"
       THEN (IF win.nextDay = "Dia1" THEN "before1" ELSE "before2")
  ELSE win.status

\* C17: at every instant of the timeline exactly one of the five cases
\* holds and getWindowStatus returns it, never 'unknown'; the handler's
\* window check never answers OutsideWindowGeneric.
C17_WindowCasesExhaustive ==
  /\ Cardinality(WindowCases(currentSpDate(clock))) = 1
  /\ getWindowStatus(clock).status # "unknown"
  /\ WindowCases(currentSpDate(clock)) = {CaseOf(getWindowStatus(clock))}
  /\ req[1].res.error # "OutsideWindowGeneric"
  /\ req[1].res.error = "EventClosed" <=> CaseOf(getWindowStatus(clock)) = "after"

\* C17, witness: the window check was made in the last minute of the
\* first day's window, 1 ms before the next minute, and found it open.
C17_Witness ==
  /\ currentSpDate(clock) = d1End
  /\ clock = d1End + TickMs - 1
  /\ getWindowStatus(clock).status = "open"
  /\ req[1].res.error = "MisconfiguredDayTable"
\* C18: when the window is open for a day whose table no run of
\* initSheets has resolved the four columns of, a request of a registered
\* identity with a registration number is answered 500
\* MisconfiguredDayTable; no row is appended and no duplicate set changes.
C18_UnresolvedDayIs500 ==
  [][\A r \in Req : \A d \in DayNames :
       ( /\ Handled(r)
         /\ schema_validate(BodyOf(r))
         /\ CpfOf(r) \in DOMAIN indexByCPF
         /\ indexByCPF[CpfOf(r)].inscricao # <<>>
         /\ InWindow(currentSpDate(ReqTime(r)), d)
         /\ chk[d] = NullChk )
       => /\ req'[r].res = Res(500, "MisconfiguredDayTable")
          /\ req'[r].pc = "done"
          /\ remote' = remote
          /\ setInscr' = setInscr]_vars

\* C18, witness: with no Dia1 table and a Dia2 table lacking its time
\* column, a registered identity was answered MisconfiguredDayTable on
\* the second day; the tables and sets are empty.
C18_Witness ==
  /\ ~sheetCfg.Dia1.exists
  /\ ready
  /\ chk.Dia2 = NullChk
  /\ req[1].res = Res(500, "MisconfiguredDayTable")
  /\ req[1].body.cpf.chars = cpfA
  /\ InWindow(clock, "Dia2")
  /\ remote.Dia2 = <<>> /\ setInscr.Dia2 = {}
\* C19: normalizeHeader applied to its own result returns that result.
C19_NormalizeIdempotent ==
  hdr.applied = 2 => hdr.twice = hdr.once

\* C19, witness: a header with leading whitespace, a precomposed capital
\* and a capital was normalised twice; the first call changed it, the
\* second did not.
C19_Witness ==
  /\ hdr.applied = 2
  /\ hdr.raw = <<"TAB", "C_ced", " ", "A">>
  /\ hdr.once = <<"c", " ", "a">>
  /\ hdr.twice = hdr.once
\* the rows merged so far that carry identity number c
Occurrences(c) ==
  { k \in 1..scan.pos : StripNonDigits(scan.rows[k].cpf) = c }

\* those of them with a registration number
Registered(c) ==
  { k \in Occurrences(c) : Trim(scan.rows[k].inscr) # <<>> }

Least(S) == CHOOSE k \in S : \A j \in S : k <= j

\* the row the claim says is indexed for c
Winner(c) ==
  IF Registered(c) # {} THEN Least(Registered(c)) ELSE Least(Occurrences(c))

\* C20: the index built from the rows merged so far has a record exactly
\* for the identity numbers occurring in them; the record is that of the
\* first occurrence with a registration number, or of the very first
\* occurrence when none has one; and newIndex.set ran at most twice for a
\* number: its first write and at most one overwrite.
C20_FirstRegisteredWins ==
  /\ DOMAIN newIndex =
       { StripNonDigits(scan.rows[k].cpf) : k \in 1..scan.pos } \ {<<>>}
  /\ \A c \in DOMAIN newIndex :
       /\ newIndex[c] = [aba |-> ScanAbas[scan.rows[Winner(c)].aba],
                         nome |-> String(Winner(c)),
                         inscricao |-> Trim(scan.rows[Winner(c)].inscr)]
       /\ Cardinality({ i \in 1..Len(scan.sets) : scan.sets[i] = c }) <= 2

\* C20, witness: a number occurred three times, first without
\* registration number, then with X, then with Y: the record is the
\* second row's, written over the first once and kept against the third.
C20_Witness ==
  /\ scan.pos = 3
  /\ \A k \in 1..3 : scan.rows[k].cpf = <<"1">>
  /\ scan.rows[1].inscr = <<" ">>
  /\ scan.rows[2].inscr = <<"X">>
  /\ scan.rows[3].inscr = <<" ", "Y">>
  /\ scan.rows[1].aba = 1 /\ scan.rows[3].aba = 2
  /\ newIndex[<<"1">>].nome = <<"2">>
  /\ newIndex[<<"1">>].inscricao = <<"X">>
  /\ scan.sets = << <<"1">>, <<"1">> >>

\* C21: the index chosen for a header row is that of the first header
\* containing 'inscr' and none of 'status', 'situacao', 'tipo',
\* 'categoria'; failing that, of the first header containing 'inscr';
\* failing that, -1. With -1 the table contributes no record; otherwise its
\* row is recorded with the cell of the chosen column. Either way the next
\* table of PERFIS is scanned and contributes its records.
C21_PickInscricao ==
  LET norm == NormHeaders(PickSheet(pick.headers).headers)
      cand == { i \in DOMAIN norm : Includes(norm[i], s_inscr) }
      clean == { i \in cand : /\ ~Includes(norm[i], s_status)
                              /\ ~Includes(norm[i], s_situacao)
                              /\ ~Includes(norm[i], s_tipo)
                              /\ ~Includes(norm[i], s_categoria) }
      expected == IF clean # {} THEN Least(clean) - 1
                  ELSE IF cand # {} THEN Least(cand) - 1
                  ELSE -1
  IN pick.step >= 1 =>
       /\ pick.iInscr = expected
       /\ expected = -1 => cpfX \notin DOMAIN newIndex
       /\ expected # -1 =>
            /\ cpfX \in DOMAIN newIndex
            /\ newIndex[cpfX] = [aba |-> PERFIS[1], nome |-> <<"X", "u">>,
                                 inscricao |-> String(expected)]
       /\ pick.step = 2 =>
            /\ DOMAIN newIndex \ {cpfX} = {cpfU, cpfA, cpfE, cpfB}
            /\ \A c \in {cpfU, cpfA, cpfE, cpfB} : newIndex[c].aba = PERFIS[4]

\* C21, witness: the header row is CPF, Nome, "Status da Inscrição",
\* "Tipo de inscr.", "Inscrição": the third drawn column is chosen, past
\* two earlier headers that contain 'inscr', and the next table is scanned.
C21_Witness ==
  /\ pick.step = 2
  /\ Len(pick.headers) = 3
  /\ Includes(normalizeHeader(pick.headers[1]), s_status)
  /\ Includes(normalizeHeader(pick.headers[1]), s_inscr)
  /\ Includes(normalizeHeader(pick.headers[2]), s_tipo)
  /\ Includes(normalizeHeader(pick.headers[2]), s_inscr)
  /\ pick.iInscr = 4
  /\ newIndex[cpfX].inscricao = <<"4">>
  /\ cpfB \in DOMAIN newIndex

C24_NoLostInsert ==
  /\ [](nRefresh = 1 =>
          \A r \in Req :
            req[r].res.status = 200 =>
              req[r].res.inscricao \in setInscr[req[r].res.dia])
  /\ [][rpc' = rpc =>
          /\ \A d \in DayNames : setInscr[d] \subseteq setInscr'[d]
          /\ \A r \in Req :
               (req[r].res.status # 200 /\ req'[r].res.status = 200)
               => /\ req[r].pc = "addRow"
                  /\ req'[r].res.dia = req[r].sheetName
                  /\ req'[r].res.inscricao = req[r].inscricao
                  /\ req[r].inscricao \in setInscr'[req[r].sheetName]]_vars

\* C24, witness: both requests have been answered 200 for the same day
\* with distinct numbers, no refresh has run since the service became
\* ready, and the day's set holds both numbers.
C24_Witness ==
  /\ nRefresh = 1 /\ rpc = "idle"
  /\ req[1].res.status = 200 /\ req[2].res.status = 200
  /\ req[1].res.dia = req[2].res.dia
  /\ req[1].res.inscricao # req[2].res.inscricao
  /\ {req[1].res.inscricao, req[2].res.inscricao} \subseteq setInscr[req[1].res.dia]

\* C25: a registration number that is in a day's set stays in it in every
\* later state: no step, of a request or of a refresh, takes a number out
\* of a day's set.
C25_SetOnlyGrows ==
  [][\A d \in DayNames : setInscr[d] \subseteq setInscr'[d]]_vars

\* C26: in every reachable state every registration number of a day's set
\* is the trimmed registration number of at least one row of that day's
\* remote table.
C26_SetBackedByRows ==
  \A d \in DayNames :
    \A n \in setInscr[d] :
      \E k \in DOMAIN remote[d] : Trim(remote[d][k].inscricao) = n

\* C26, witness: a request has added its number to the set of the first
\* day after its append, next to a number read from the table's rows, and
\* two runs of initSheets have filled the set from the rows they read.
C26_Witness ==
  /\ nRefresh = 2 /\ rpc = "idle" /\ rerr = "none"
  /\ \E r \in Req : /\ req[r].res.status = 200
                    /\ req[r].res.dia = "Dia1"
                    /\ req[r].res.inscricao \in setInscr["Dia1"]
  /\ Cardinality(setInscr["Dia1"]) = 2
  /\ Len(remote["Dia1"]) = 2

\* C27: when a run of initSheets has thrown, the index, the ready flag
\* and both days' column mappings and sets are what they were before that
\* run started; for the run made at boot, which no request can have
\* interleaved with a change of state, they are those of construction.
C27_FailedRunLeavesNoTrace ==
  (nRefresh = 1 /\ rpc = "idle" /\ rerr # "none") =>
    /\ indexByCPF = EmptyIndex
    /\ ready = FALSE
    /\ chk = [Dia1 |-> NullChk, Dia2 |-> NullChk]
    /\ setInscr = [Dia1 |-> {}, Dia2 |-> {}]

\* the rows day d's table held when the process started
StartRowsOf(d) == IF d = "Dia1" THEN StartRows ELSE <<>>

\* C28 (as claimed): a request whose append failed leaves no trace that
\* could reject a later request of the same identity: when an earlier
\* request of that identity ended in a failed append and none was answered
\* 200, the later request is answered AlreadyConfirmed only for a number
\* the day's table held from the start.
C28_FailureNeverBlocks ==
  [][\A r \in Req : \A o \in Req \ {r} :
       ( /\ Handled(r)
         /\ req[o].pc = "done"
         /\ req[o].err # "none"
         /\ req[o].body = BodyOf(r)
         /\ \A q \in Req : req[q].res.status = 200 => req[q].body # BodyOf(r)
         /\ req'[r].res.status = 409 )
       => RowsFor(StartRowsOf(req'[r].res.dia), req'[r].res.inscricao) # {}]_vars

\* C28: a request is answered 200 only in the step in which its append
\* resolves, which adds a row with its number to its day's table and the
\* number to that day's set; a step in which its append is rejected, to be
\* retried or for good, leaves both sets as they are, and the final
\* rejection is answered 500 or 503. A request is answered
\* AlreadyConfirmed only for a number that some row of the day's table
\* carries.
C28_SetFollowsAppend ==
  [][\A r \in Req :
       /\ (req[r].res.status # 200 /\ req'[r].res.status = 200)
          => /\ req[r].pc = "addRow"
             /\ Len(remote'[req[r].sheetName]) = Len(remote[req[r].sheetName]) + 1
             /\ RowsFor(remote'[req[r].sheetName], req[r].inscricao)
                  = RowsFor(remote[req[r].sheetName], req[r].inscricao)
                      \cup {Len(remote'[req[r].sheetName])}
             /\ setInscr'[req[r].sheetName]
                  = setInscr[req[r].sheetName] \cup {req[r].inscricao}
             /\ setInscr'[OtherDay(req[r].sheetName)]
                  = setInscr[OtherDay(req[r].sheetName)]
             /\ req'[r].res.inscricao = req[r].inscricao
             /\ req'[r].res.dia = req[r].sheetName
       /\ (Resumed(r) /\ req'[r].res.status # 200)
          => /\ setInscr' = setInscr
             /\ req'[r].pc = "done"
                  => /\ req'[r].res.status \in {500, 503}
                     /\ req'[r].err # "none"
       /\ (Handled(r) /\ req'[r].res.status = 409)
          => RowsFor(remote[req'[r].res.dia], req'[r].res.inscricao) # {}]_vars

\* C28, witness: a request's append was rejected for good and its number
\* is in no set; a later request of the same identity then passed the
\* duplicate check and was answered 200, its number now in the day's set.
C28_Witness ==
  /\ req[1].pc = "done" /\ req[1].err # "none"
  /\ req[1].res.status \in {500, 503}
  /\ req[1].appended = 0
  /\ req[2].body = req[1].body
  /\ req[2].res.status = 200
  /\ req[2].res.inscricao \in setInscr[req[2].res.dia]
  /\ Len(remote[req[2].res.dia]) = Len(StartRowsOf(req[2].res.dia)) + 1

====
